---- MODULE Spec2Model ----
(***************************************************************************)
(* Model of refresh_and_notify.py: one run of main() is a "cycle" that     *)
(* crawls availability, preloads alarms / push endpoints / baseline /      *)
(* sent rows, walks the alarm keys, and flushes slots_snapshot and         *)
(* sent_slots.  The database tables persist between cycles.                *)
(*                                                                         *)
(* A Python str is a sequence of one-character strings; a Hangul syllable  *)
(* is written as its romanisation in angle brackets ("<te>" is U+D14C).    *)
(***************************************************************************)
EXTENDS Integers, Sequences, FiniteSets, TLC

\* Number of runs of main() explored.
MaxCycles == 3

-----------------------------------------------------------------------------
(* Python values and string helpers *)

None == [type |-> "none"]
PyStr(s) == [type |-> "str", s |-> s]
PyDict(d) == [type |-> "dict", d |-> d]
PyInt(n) == [type |-> "int", n |-> n]

\* Python truthiness of None, str and dict.
Truthy(v) ==
    CASE v.type = "none" -> FALSE
      [] v.type = "str"  -> v.s # <<>>
      [] v.type = "dict" -> DOMAIN v.d # {}
      [] v.type = "int"  -> v.n # 0

\* dict.get(name): the value, or None when the key is absent.
DictGet(v, name) == IF name \in DOMAIN v.d THEN v.d[name] ELSE None

\* a or b or c ...: the first truthy operand, else the last operand.
RECURSIVE OrChain(_)
OrChain(vs) ==
    IF Len(vs) = 1 THEN vs[1]
    ELSE IF Truthy(vs[1]) THEN vs[1] ELSE OrChain(Tail(vs))

Whitespace == {" ", "\t", "\n"}

RECURSIVE LStrip(_)
LStrip(s) ==
    IF s # <<>> /\ Head(s) \in Whitespace THEN LStrip(Tail(s)) ELSE s

RECURSIVE RStrip(_)
RStrip(s) ==
    IF s # <<>> /\ s[Len(s)] \in Whitespace
    THEN RStrip(SubSeq(s, 1, Len(s) - 1)) ELSE s

\* str.strip()
Strip(s) == RStrip(LStrip(s))

\* str.startswith(p)
StartsWith(s, p) == Len(s) >= Len(p) /\ SubSeq(s, 1, Len(p)) = p

\* Code-point order of the characters that occur in the model.
CharOrder ==
    <<"\t", "\n", " ", "-", "/", "0", "1", "2", "3", "4", "5", "6", "7", "8",
      "9", ":", "A", "B", "[", "]", "x", "|", "~",
      "<go>", "<ni>", "<seu>", "<yang>", "<yong>", "<in>", "<jang>", "<te>">>

Ord(c) == CHOOSE i \in 1..Len(CharOrder) : CharOrder[i] = c

\* Python str comparison a < b (lexicographic by code point).
RECURSIVE StrLess(_, _)
StrLess(a, b) ==
    IF b = <<>> THEN FALSE
    ELSE IF a = <<>> THEN TRUE
    ELSE IF Head(a) = Head(b) THEN StrLess(Tail(a), Tail(b))
    ELSE Ord(Head(a)) < Ord(Head(b))

\* sorted(S) for a set of str.
RECURSIVE Sorted(_)
Sorted(S) ==
    IF S = {} THEN <<>>
    ELSE LET m == CHOOSE x \in S : \A y \in S \ {x} : StrLess(x, y)
         IN  <<m>> \o Sorted(S \ {m})

Range(f) == {f[x] : x \in DOMAIN f}

Digit(d) == <<"0", "1", "2", "3", "4", "5", "6", "7", "8", "9">>[d + 1]

\* str(n) for an int.
RECURSIVE IntToStr(_)
IntToStr(n) ==
    IF n < 0 THEN <<"-">> \o IntToStr(0 - n)
    ELSE IF n < 10 THEN <<Digit(n)>>
    ELSE IntToStr(n \div 10) \o <<Digit(n % 10)>>

\* sep.join(parts)
RECURSIVE Join(_, _)
Join(sep, parts) ==
    IF parts = <<>> THEN <<>>
    ELSE IF Len(parts) = 1 THEN parts[1]
    ELSE parts[1] \o sep \o Join(sep, Tail(parts))

-----------------------------------------------------------------------------
(* Utils of refresh_and_notify.py *)

\* to_yyyymmdd: "" for a falsy input, else strip, then drop every "-".
to_yyyymmdd(s) ==
    IF s = <<>> THEN <<>>
    ELSE LET t == Strip(s)
         IN  IF \E i \in 1..Len(t) : t[i] = "-"
             THEN SelectSeq(t, LAMBDA c : c # "-")
             ELSE t

IsDigit(c) == c \in {"0", "1", "2", "3", "4", "5", "6", "7", "8", "9"}

DigitValue(c) == CHOOSE d \in 0..9 : Digit(d) = c

RECURSIVE DigitsValue(_)
DigitsValue(s) ==
    IF s = <<>> THEN 0
    ELSE 10 * DigitsValue(SubSeq(s, 1, Len(s) - 1)) + DigitValue(s[Len(s)])

\* int(s) for a str: blanks around, an optional sign, then digits; anything
\* else raises ValueError.
IntOf(s) ==
    LET t == Strip(s)
        signed == t # <<>> /\ Head(t) \in {"+", "-"}
        digits == IF signed THEN Tail(t) ELSE t
    IN  IF digits = <<>> \/ \E n \in 1..Len(digits) : ~IsDigit(digits[n])
        THEN [raises |-> TRUE]
        ELSE [raises |-> FALSE,
              n |-> IF signed /\ Head(t) = "-" THEN 0 - DigitsValue(digits)
                    ELSE DigitsValue(digits)]

DaysInMonth(y, m) ==
    IF m \in {4, 6, 9, 11} THEN 30
    ELSE IF m = 2
         THEN (IF y % 4 = 0 /\ (y % 100 # 0 \/ y % 400 = 0) THEN 29 ELSE 28)
         ELSE 31

\* yyyymmdd_to_date: whether date(int(s[0:4]), int(s[4:6]), int(s[6:8])) raises
\* ValueError for a str of 8 characters.
yyyymmdd_to_date_raises(yyyymmdd) ==
    LET y == IntOf(SubSeq(yyyymmdd, 1, 4))
        m == IntOf(SubSeq(yyyymmdd, 5, 6))
        d == IntOf(SubSeq(yyyymmdd, 7, 8))
    IN  \/ y.raises \/ m.raises \/ d.raises
        \/ y.n < 1 \/ y.n > 9999
        \/ m.n < 1 \/ m.n > 12
        \/ d.n < 1 \/ d.n > DaysInMonth(y.n, m.n)

\* re.sub(r"\[.*?\]", "", title): drop each "[" up to the nearest "]".
RECURSIVE RemoveBracketed(_)
RemoveBracketed(s) ==
    IF s = <<>> THEN <<>>
    ELSE IF Head(s) = "[" /\ \E j \in 2..Len(s) : s[j] = "]"
         THEN LET j == CHOOSE k \in 2..Len(s) :
                          s[k] = "]" /\ \A l \in 2..(k - 1) : s[l] # "]"
              IN  RemoveBracketed(SubSeq(s, j + 1, Len(s)))
         ELSE <<Head(s)>> \o RemoveBracketed(Tail(s))

TennisCourtWord == <<"<te>", "<ni>", "<seu>", "<jang>">>

\* s.split(sep)[0]: the part of s before the first occurrence of sep.
RECURSIVE SplitHead(_, _)
SplitHead(s, sep) ==
    IF s = <<>> \/ StartsWith(s, sep) THEN <<>>
    ELSE <<Head(s)>> \o SplitHead(Tail(s), sep)

YonginPrefix == <<"<yong>", "<in>", "|">>
GoyangPrefix == <<"<go>", "<yang>", "|">>

get_court_group(title, facility_id) ==
    LET base == Strip(SplitHead(RemoveBracketed(title), TennisCourtWord))
    IN  IF StartsWith(facility_id, <<"y", "o", "n", "g", "i", "n", ":">>)
        THEN YonginPrefix \o base
        ELSE IF StartsWith(facility_id, <<"g", "o", "y", "a", "n", "g", ":">>)
        THEN GoyangPrefix \o base
        ELSE base

\* str(v) for the value kinds the model uses; the items of a dict that is not
\* empty are written as one token.
PyToStr(v) ==
    CASE v.type = "str"  -> v.s
      [] v.type = "none" -> <<"N", "o", "n", "e">>
      [] v.type = "int"  -> IntToStr(v.n)
      [] v.type = "dict" -> IF DOMAIN v.d = {} THEN <<"{", "}">>
                            ELSE <<"{", "<items>", "}">>

slot_key_from_time(t) ==
    IF t.type = "none" THEN <<>>
    ELSE IF t.type = "str" THEN Strip(t.s)
    ELSE IF t.type # "dict" THEN Strip(PyToStr(t))
    ELSE
      LET tv0 == OrChain(<<DictGet(t, "time"), DictGet(t, "startTime"),
                           DictGet(t, "start_time"), DictGet(t, "stime"),
                           DictGet(t, "label"), DictGet(t, "timeContent")>>)
          time_val == IF tv0.type = "dict"
                      THEN OrChain(<<DictGet(tv0, "time"), DictGet(tv0, "label")>>)
                      ELSE tv0
          time_str == IF time_val.type # "none" THEN Strip(PyToStr(time_val)) ELSE <<>>
          court_val == OrChain(<<DictGet(t, "court"), DictGet(t, "courtNo"),
                                 DictGet(t, "court_no"), DictGet(t, "courtName"),
                                 DictGet(t, "court_name")>>)
          court_str == IF court_val.type # "none" THEN Strip(PyToStr(court_val)) ELSE <<>>
      IN  IF court_str # <<>> /\ time_str # <<>>
          THEN time_str \o <<"|">> \o court_str
          ELSE time_str

-----------------------------------------------------------------------------
(* The crawler's output and the rows other programs put in the database *)

F1 == <<"y", "o", "n", "g", "i", "n", ":", "1">>
F2 == <<"y", "o", "n", "g", "i", "n", ":", "2">>

\* facilities as crawl_all returns them: facility_id -> meta with a title.
Facilities ==
    (F1 :> [title |-> <<"[", "x", "]", "A", "<te>", "<ni>", "<seu>", "<jang>", " ", "1">>])
    @@ (F2 :> [title |-> <<"A", " ", "<te>", "<ni>", "<seu>", "<jang>", " ", "2">>])

GA == <<"<yong>", "<in>", "|", "A">>

D1 == <<"2", "0", "2", "5", "0", "3", "0", "1">>
D2 == <<"2", "0", "2", "5", "0", "3", "0", "2">>

\* Slot representations the crawler produces.
SlotB == PyStr(<<"1", "0">>)
SlotB2 == PyStr(<<" ", "1", "0">>)
SlotK == PyDict([startTime |-> PyStr(<<"1", "9">>), courtNo |-> PyStr(<<"1">>)])

\* crawl_all: the availability maps one crawl may return.  Facility 2 always
\* offers the 10 o'clock slot on D1; facility 1 varies.
Crawls ==
    {(F1 :> ((D1 :> a) @@ (D2 :> b))) @@ (F2 :> (D1 :> <<SlotB2>>)) :
        a \in {<<>>, <<SlotK>>},
        b \in {<<>>, <<SlotB>>, <<SlotB, None, SlotK>>}}

\* Crawls in which facility 1 also carries a date key with dashes and a date
\* key of 8 digits that is no calendar date.
Feb30 == <<"2", "0", "2", "5", "0", "2", "3", "0">>
D1Dashed == <<"2", "0", "2", "5", "-", "0", "3", "-", "0", "1">>

MalformedCrawls ==
    {(F1 :> ((D1 :> a) @@ (Feb30 :> <<SlotB>>) @@ (D1Dashed :> <<SlotB>>)))
        @@ (F2 :> (D1 :> <<SlotB2>>)) :
        a \in {<<>>, <<SlotK>>}}

Subscribers == {"s1", "s2"}

\* Rows of public.alarms: subscriber s1 watches the court group on two dates
\* (one date written with dashes, the group with a trailing blank), s2 on one;
\* the last row carries a date that does not normalise to 8 characters.
\* Whether the subscription is enabled is a column load_alarms does not select.
AlarmS1D1 == [subscription_id |-> "s1", court_group |-> GA \o <<" ">>,
              date |-> <<"2", "0", "2", "5", "-", "0", "3", "-", "0", "1">>,
              enabled |-> TRUE]
AlarmS1D2 == [subscription_id |-> "s1", court_group |-> GA, date |-> D2,
              enabled |-> TRUE]
AlarmS2D1 == [subscription_id |-> "s2", court_group |-> GA, date |-> D1,
              enabled |-> TRUE]
AlarmBadDate == [subscription_id |-> "s2", court_group |-> GA,
                 date |-> <<"2", "0", "2", "5", "/", "0", "3", "/", "0", "1">>,
                 enabled |-> TRUE]

\* A subscription that its owner has disabled.
AlarmDisabled == [subscription_id |-> "s1", court_group |-> GA, date |-> D2,
                  enabled |-> FALSE]

AllAlarms == <<AlarmS1D1, AlarmS1D2, AlarmS2D1, AlarmBadDate>>

Reverse(q) == [n \in 1..Len(q) |-> q[Len(q) + 1 - n]]

\* Contents of public.alarms, in the order load_alarms returns the rows: no
\* row, only the unusable row, only the disabled row, or all rows in either
\* order.
AlarmTables == {<<>>, <<AlarmBadDate>>, <<AlarmDisabled>>, AllAlarms, Reverse(AllAlarms)}

-----------------------------------------------------------------------------
VARIABLES
    alarms,             \* table public.alarms, rows in the order a scan returns them
    push_subscriptions, \* ids of table public.push_subscriptions
    baseline_slots,     \* table public.baseline_slots: <<sid, group, ymd, sk>>
    sent_slots,         \* table public.sent_slots: <<sid, sk>>
    slots_snapshot,     \* table public.slots_snapshot: <<fid, ymd, sk>>
    stamps,             \* the timestamp columns of the two tables, by row key:
                        \* [first_seen_at, last_seen_at, sent_at]
    pc,                 \* position of main(): "idle", "loop", "flush_sent"
    availability,       \* main's availability
    alarm_keys,         \* main's alarm_keys
    push_map,           \* main's push_map (ids that have an endpoint)
    baseline_map,       \* main's baseline_map
    sent_map,           \* main's sent_map
    i,                  \* index of the alarm key the loop of step 10 is at
    sent_rows,          \* main's sent_rows
    cycle,              \* number of runs of main() started
    ending,             \* how the latest run ended
    pushLog,            \* send_push calls of the latest run: [key, to_send, res]
    established,        \* alarm keys whose baseline the latest run inserted
    establishedPrev,    \* alarm keys whose baseline the run before it inserted
    failedPrev,         \* <<key, sk>> whose push failed in the run before the latest
    okPrev,             \* pushes the transport accepted in the run before the latest:
                        \* <<key, sk, current slots of key, how that run ended>>
    delivered,          \* <<sid, group, ymd, sk>> accepted by the transport
    dup,                \* members of delivered accepted a second time
    prevRun,            \* availability and endpoints of the run before the latest,
                        \* when it ended with every push accepted and every write
                        \* done; NoRun otherwise
    call,               \* a helper function under evaluation: [fn, arg], or NoCall
    result,             \* what the call returned, or NoCall
    \* benchmark_55s.py, run_timeboxed
    concurrency,        \* the concurrency argument
    q,                  \* the asyncio.Queue of jobs
    now,                \* time.perf_counter() - start, in ticks of 300 ms
    sem,                \* the value of the asyncio.Semaphore
    workers,            \* worker -> [pc, job, t0, exit]; pc is "new", "fetch", "wait",
                        \* "done"; exit is the return a done worker took: "deadline"
                        \* (line 87), "empty" (line 92) or "margin" (line 96)
    ok,                 \* counter ok
    fail,               \* counter fail
    fail_reasons,       \* label -> count
    durations,          \* the list durations
    fetchLog,           \* fetch_times calls so far: [job, w, t0, end, outcome];
                        \* end is -1 and outcome "" while the call is in flight
    returned            \* the dict run_timeboxed returns, or NoResult

db == <<alarms, push_subscriptions, baseline_slots, sent_slots, slots_snapshot, stamps>>
locals == <<availability, alarm_keys, push_map, baseline_map, sent_map, i, sent_rows>>
runlog == <<ending, pushLog, established>>
history == <<cycle, establishedPrev, failedPrev, okPrev, delivered, dup, prevRun>>
harness == <<concurrency, q, now, sem, workers, ok, fail, fail_reasons, durations,
             fetchLog, returned>>
aside == <<call, result, harness>>
vars == <<db, pc, locals, runlog, history, aside>>

NoRun == [ran |-> FALSE]
NoCall == [fn |-> "none"]
NoResult == [jobs_total |-> -1]

\* run_timeboxed has not been called.
HarnessIdle ==
    /\ concurrency = 0
    /\ q = <<>>
    /\ now = 0
    /\ sem = 0
    /\ workers = <<>>
    /\ ok = 0
    /\ fail = 0
    /\ fail_reasons = <<>>
    /\ durations = <<>>
    /\ fetchLog = <<>>
    /\ returned = NoResult

-----------------------------------------------------------------------------
(* Steps 5-9 of main and the batch reads *)

\* Step 5: one alarm row as (sid, group, yyyymmdd).
AlarmKey(a) == <<a.subscription_id, Strip(a.court_group), to_yyyymmdd(a.date)>>

ValidAlarm(a) ==
    LET k == AlarmKey(a)
    IN  k[1] # "" /\ k[2] # <<>> /\ Len(k[3]) = 8

\* Step 4: the subscription ids of the alarm rows.
sub_ids(rows) == {rows[n].subscription_id : n \in DOMAIN rows}

\* Mutant: an entry for every id asked for, registered or not.
load_push_subscriptions_All(table, ids) == ids

\* load_push_subscriptions: the ids among sub_ids that have an endpoint row.
load_push_subscriptions(table, ids) == table \cap ids

\* Step 5: the keys of the valid alarm rows, in the order of the rows.
RECURSIVE alarm_keys_of(_)
alarm_keys_of(rows) ==
    IF rows = <<>> THEN <<>>
    ELSE IF ValidAlarm(Head(rows))
         THEN <<AlarmKey(Head(rows))>> \o alarm_keys_of(Tail(rows))
         ELSE alarm_keys_of(Tail(rows))

\* Step 7: facility ids of a court group.
group_to_fids(g) ==
    {fid \in DOMAIN Facilities : get_court_group(Facilities[fid].title, fid) = g}

\* m.get(k) or default, for a mapping held as a function.
MapGet(m, k, default) == IF k \in DOMAIN m THEN m[k] ELSE default

\* Mutant: the empty slot key is kept.
key_to_current_slots_KeepEmpty(av, key) ==
    UNION {
        {slot_key_from_time(day[n]) : n \in DOMAIN day} :
            day \in {MapGet(MapGet(av, fid, <<>>), key[3], <<>>) :
                        fid \in group_to_fids(key[2])}}

\* Step 8: the non-empty slot keys of the key's facilities on its date.
key_to_current_slots(av, key) ==
    {sk \in UNION {
        {slot_key_from_time(day[n]) : n \in DOMAIN day} :
            day \in {MapGet(MapGet(av, fid, <<>>), key[3], <<>>) :
                        fid \in group_to_fids(key[2])}} :
        sk # <<>>}

all_candidate_slot_keys(av, keys) ==
    UNION {key_to_current_slots(av, keys[n]) : n \in DOMAIN keys}

\* Mutant: the join on (subscription_id, court_group, date) matches no row.
preload_baseline_NoMatch(table, keys) == [k \in {} |-> {}]

preload_baseline(table, keys) ==
    LET found == {k \in Range(keys) :
                    \E r \in table : <<r[1], r[2], r[3]>> = k}
    IN  [k \in found |-> {r[4] : r \in {x \in table : <<x[1], x[2], x[3]>> = k}}]

\* Mutant: the rows of sent_slots are not read.
preload_sent_slots_Unread(table, ids, slot_keys) == [sid \in ids |-> {}]

preload_sent_slots(table, ids, slot_keys) ==
    IF ids = {} \/ slot_keys = {}
    THEN [sid \in ids |-> {}]
    ELSE [sid \in ids |->
            {r[2] : r \in {x \in table : x[1] = sid /\ x[2] \in slot_keys}}]

\* Mutant: a row for a slot key that was not crawled is inserted as well.
insert_baseline_Extra(table, sid, court_group, ymd, slot_keys) ==
    table \cup {<<sid, court_group, ymd, sk>> : sk \in slot_keys \cup {<<"2", "3">>}}

\* insert_baseline: one row per non-empty key, on conflict do nothing.
insert_baseline(table, sid, court_group, ymd, slot_keys) ==
    table \cup {<<sid, court_group, ymd, sk>> : sk \in {x \in slot_keys : x # <<>>}}

\* Mutant: the baseline is not subtracted.
Added_NoBaseline(cur_slots, baseline) == cur_slots

\* Line 665: slots new since the baseline.
Added(cur_slots, baseline) == cur_slots \ baseline

\* Line 671: the new slots not yet sent to this subscription id, sorted.
ToSend(added, already_sent) ==
    SelectSeq(Sorted(added), LAMBDA sk : sk \notin already_sent)

\* to_send[:6]
FirstSix(to_send) == SubSeq(to_send, 1, IF Len(to_send) < 6 THEN Len(to_send) ELSE 6)

\* Mutant: the preview is not cut.
Preview_Uncut(to_send) == Join(<<",", " ">>, to_send)

\* Line 677: the first six keys, joined by ", ".
Preview(to_send) == Join(<<",", " ">>, FirstSix(to_send))

\* Line 678: "" or " <oe> N<gae>" (" and N more").
More(to_send) ==
    IF Len(to_send) <= 6 THEN <<>>
    ELSE <<" ", "<oe>", " ">> \o IntToStr(Len(to_send) - 6) \o <<"<gae>">>

NewSlotsLabel == <<" ", "<sin>", "<gyu>", " ", "<seul>", "<rot>", ":", " ">>

\* Line 681: the body of the push message.
PushBody(group, ymd, to_send) ==
    group \o <<" ">> \o SubSeq(ymd, 5, 6) \o <<"/">> \o SubSeq(ymd, 7, 8)
          \o NewSlotsLabel \o Preview(to_send) \o More(to_send)

\* Step 11: rows for slots_snapshot (date keys of 8 characters, non-empty keys).
SnapshotRows(av) ==
    UNION {UNION {{<<fid, ymd, sk>> :
                     sk \in {slot_key_from_time(av[fid][ymd][n]) :
                                n \in DOMAIN av[fid][ymd]} \ {<<>>}} :
                  ymd \in {y \in DOMAIN av[fid] : y # <<>> /\ Len(y) = 8}} :
           fid \in DOMAIN av}

\* Step 11: whether building the rows raises, at yyyymmdd_to_date of line 704.
SnapshotRaises(av) ==
    \E fid \in DOMAIN av :
       \E ymd \in DOMAIN av[fid] :
          ymd # <<>> /\ Len(ymd) = 8 /\ yyyymmdd_to_date_raises(ymd)

\* bulk_upsert_slots_snapshot: insert, or refresh last_seen_at of an existing key.
bulk_upsert_slots_snapshot(table, snapshot_rows) == table \cup snapshot_rows

\* Mutant: on conflict first_seen_at is set as well.
snapshot_stamps_Reset(st, table, snapshot_rows, ts) ==
    [st EXCEPT !.first_seen_at = [k \in table \cup snapshot_rows |->
                                     IF k \in snapshot_rows THEN ts ELSE st.first_seen_at[k]],
               !.last_seen_at = [k \in table \cup snapshot_rows |->
                                    IF k \in snapshot_rows THEN ts ELSE st.last_seen_at[k]]]

\* Lines 516-523, the timestamps: a new row gets (ts, ts); on conflict only
\* last_seen_at is set.
snapshot_stamps(st, table, snapshot_rows, ts) ==
    [st EXCEPT !.first_seen_at = [k \in table \cup snapshot_rows |->
                                     IF k \in table THEN st.first_seen_at[k] ELSE ts],
               !.last_seen_at = [k \in table \cup snapshot_rows |->
                                    IF k \in snapshot_rows THEN ts ELSE st.last_seen_at[k]]]

\* Lines 497-501, the timestamp: a new row gets sent_at = now(); on conflict
\* nothing is done.
sent_stamps(st, table, rows, ts) ==
    [st EXCEPT !.sent_at = [k \in table \cup rows |->
                               IF k \in table THEN st.sent_at[k] ELSE ts]]

\* Mutant: the rows are not written.
bulk_mark_sent_Dropped(table, rows) == table

\* bulk_mark_sent: insert, on conflict do nothing.
bulk_mark_sent(table, rows) == table \cup rows

-----------------------------------------------------------------------------
\* No run of main has started; one endpoint is registered.
Quiescent ==
    /\ push_subscriptions = {"s1"}
    /\ baseline_slots = {}
    /\ sent_slots = {}
    /\ slots_snapshot = {}
    /\ stamps = [first_seen_at |-> <<>>, last_seen_at |-> <<>>, sent_at |-> <<>>]
    /\ pc = "idle"
    /\ availability = <<>>
    /\ alarm_keys = <<>>
    /\ push_map = {}
    /\ baseline_map = <<>>
    /\ sent_map = <<>>
    /\ i = 1
    /\ sent_rows = {}
    /\ cycle = 0
    /\ ending = "none"
    /\ pushLog = {}
    /\ established = {}
    /\ establishedPrev = {}
    /\ failedPrev = {}
    /\ okPrev = {}
    /\ delivered = {}
    /\ dup = {}
    /\ prevRun = NoRun

Init ==
    /\ alarms \in AlarmTables
    /\ Quiescent
    /\ call = NoCall
    /\ result = NoCall
    /\ HarnessIdle

(* Another program, between two runs of main *)

\* A browser registers its push endpoint.
RegisterEndpoint ==
    /\ pc = "idle"
    /\ \E s \in Subscribers \ push_subscriptions :
           push_subscriptions' = push_subscriptions \cup {s}
    /\ UNCHANGED <<alarms, baseline_slots, sent_slots, slots_snapshot, stamps,
                   pc, locals, runlog, history, aside>>

(* main *)

\* The <<key, sk>> of the latest run's pushes that the transport did not accept.
FailedPushes ==
    UNION {{<<e.key, sk>> : sk \in Range(e.to_send)} :
              e \in {x \in pushLog : x.res # "ok"}}

\* The pushes of the latest run that the transport accepted.
AcceptedPushes ==
    UNION {{<<e.key, sk, key_to_current_slots(availability, e.key), ending>> :
               sk \in Range(e.to_send)} :
              e \in {x \in pushLog : x.res = "ok"}}

\* Lines 564-565: a run starts and crawls.
BeginRun(av) ==
    /\ pc = "idle"
    /\ cycle < MaxCycles
    /\ cycle' = cycle + 1
    /\ availability' = av

\* Lines 564-576: the database rejects a statement of the frontend writes
\* (upsert_facilities_for_frontend, upsert_availability_cache_for_frontend).
\* The exception is caught and logged at lines 571-573 without a rollback, so
\* the connection's transaction stays aborted, the select of load_alarms
\* (line 576) raises, and the exception leaves main.
FrontendWriteFails ==
    /\ \E av \in Crawls : BeginRun(av)
    /\ pc' = "done"
    /\ ending' = "raised"
    /\ UNCHANGED <<db, alarm_keys, push_map, baseline_map, sent_map, i, sent_rows,
                   pushLog, established, establishedPrev, failedPrev, okPrev,
                   delivered, dup, prevRun, aside>>

\* Lines 576-579: no alarm rows; main returns before steps 4-12.
NoAlarms ==
    /\ alarms = <<>>
    /\ \E av \in Crawls : BeginRun(av)
    /\ pc' = "done"
    /\ ending' = "noalarms"
    /\ UNCHANGED <<db, alarm_keys, push_map, baseline_map, sent_map, i, sent_rows,
                   pushLog, established, establishedPrev, failedPrev, okPrev,
                   delivered, dup, prevRun, aside>>

\* Lines 581-597: alarm rows, none of them valid; main returns before steps 6-12.
NoValidAlarms ==
    /\ alarms # <<>>
    /\ \A a \in Range(alarms) : ~ValidAlarm(a)
    /\ \E av \in Crawls : BeginRun(av)
    /\ push_map' = load_push_subscriptions(push_subscriptions, sub_ids(alarms))
    /\ pc' = "done"
    /\ ending' = "novalid"
    /\ UNCHANGED <<db, alarm_keys, baseline_map, sent_map, i, sent_rows,
                   pushLog, established, establishedPrev, failedPrev, okPrev,
                   delivered, dup, prevRun, aside>>

\* Lines 564-644: crawl, load the alarms and endpoints, preload baseline and sent rows.
PreloadOn(crawls) ==
    /\ \E a \in Range(alarms) : ValidAlarm(a)
    /\ \E av \in crawls :
         /\ BeginRun(av)
         /\ LET keys == alarm_keys_of(alarms)
            IN  /\ alarm_keys' = keys
                /\ push_map' = load_push_subscriptions(push_subscriptions, sub_ids(alarms))
                /\ baseline_map' = preload_baseline(baseline_slots, keys)
                /\ sent_map' = preload_sent_slots(sent_slots, sub_ids(alarms),
                                   all_candidate_slot_keys(av, keys))
    /\ pc' = "loop"
    /\ ending' = "running"
    /\ UNCHANGED <<db, i, sent_rows, pushLog, established, establishedPrev,
                   failedPrev, okPrev, delivered, dup, prevRun, aside>>

Preload == PreloadOn(Crawls)

\* The same steps when the crawl carries malformed date keys.
PreloadMalformed == PreloadOn(MalformedCrawls)

\* The run ends by an exception or by the process stopping: the rows of
\* sent_rows are not written.
Stop(how) ==
    /\ pc' = "done"
    /\ ending' = how

\* Lines 646-695: the body of the loop of step 10 for alarm key i.  res is what
\* the one call that can fail does: "ok", "WebPushException" or "Exception" from
\* send_push, "StoreError" from insert_baseline.
AlarmStep(res) ==
    /\ pc = "loop"
    /\ i <= Len(alarm_keys)
    /\ UNCHANGED aside
    /\ LET key == alarm_keys[i]
           sid == key[1]
           cur_slots == key_to_current_slots(availability, key)
           baseline == MapGet(baseline_map, key, {})
           added == Added(cur_slots, baseline)
           to_send == ToSend(added, MapGet(sent_map, sid, {}))
           skip == /\ res = "ok"
                   /\ i' = i + 1
                   /\ UNCHANGED <<db, pc, availability, alarm_keys, push_map,
                                  baseline_map, sent_map, sent_rows, runlog, history>>
       IN  IF sid \notin push_map THEN skip
           ELSE IF baseline = {} THEN
               IF cur_slots = {} THEN skip
               ELSE \/ /\ res = "ok"
                       /\ baseline_slots' =
                              insert_baseline(baseline_slots, sid, key[2], key[3], cur_slots)
                       /\ baseline_map' = (key :> cur_slots) @@ baseline_map
                       /\ established' = established \cup {key}
                       /\ i' = i + 1
                       /\ UNCHANGED <<alarms, push_subscriptions, sent_slots,
                                      slots_snapshot, stamps, pc, availability, alarm_keys,
                                      push_map, sent_map, sent_rows, ending, pushLog,
                                      history>>
                    \/ /\ res = "StoreError"
                       /\ Stop("raised")
                       /\ UNCHANGED <<db, locals, pushLog, established, history>>
           ELSE IF added = {} \/ to_send = <<>> THEN skip
           ELSE /\ res \in {"ok", "WebPushException", "Exception"}
                /\ pushLog' = pushLog \cup
                      {[key |-> key, to_send |-> to_send, res |-> res,
                        body |-> PushBody(key[2], key[3], to_send)]}
                /\ UNCHANGED <<db, availability, alarm_keys, push_map, baseline_map,
                               established, cycle, establishedPrev, failedPrev,
                               okPrev, prevRun>>
                /\ CASE res = "ok" ->
                          LET sent == {<<key[1], key[2], key[3], sk>> : sk \in Range(to_send)}
                          IN  /\ sent_rows' = sent_rows \cup {<<sid, sk>> : sk \in Range(to_send)}
                              /\ sent_map' = [sent_map EXCEPT ![sid] = @ \cup Range(to_send)]
                              /\ delivered' = delivered \cup sent
                              /\ dup' = dup \cup (sent \cap delivered)
                              /\ i' = i + 1
                              /\ UNCHANGED <<pc, ending>>
                     [] res = "WebPushException" ->
                          /\ i' = i + 1
                          /\ UNCHANGED <<pc, ending, sent_rows, sent_map, delivered, dup>>
                     [] res = "Exception" ->
                          /\ Stop("raised")
                          /\ UNCHANGED <<i, sent_rows, sent_map, delivered, dup>>

ProcessAlarm == AlarmStep("ok")
PushRejected == AlarmStep("WebPushException")
PushRaises == AlarmStep("Exception")
InsertBaselineRaises == AlarmStep("StoreError")

\* Lines 697-714: build snapshot_rows and flush them; a failure is logged.
FlushSnapshot(written) ==
    /\ pc = "loop"
    /\ i > Len(alarm_keys)
    /\ ~SnapshotRaises(availability)
    /\ LET snapshot_rows == SnapshotRows(availability)
       IN  IF written
           THEN /\ slots_snapshot' =
                      bulk_upsert_slots_snapshot(slots_snapshot, snapshot_rows)
                /\ stamps' = snapshot_stamps(stamps, slots_snapshot, snapshot_rows, cycle)
           ELSE snapshot_rows # {} /\ UNCHANGED <<slots_snapshot, stamps>>
    /\ pc' = "flush_sent"
    /\ ending' = IF written THEN "running" ELSE "snapshot_failed"
    /\ UNCHANGED <<alarms, push_subscriptions, baseline_slots, sent_slots, locals,
                   pushLog, established, history, aside>>

\* Lines 716-721: flush sent_rows; a failure is logged.
FlushSent(written) ==
    /\ pc = "flush_sent"
    /\ IF written
       THEN /\ sent_slots' = bulk_mark_sent(sent_slots, sent_rows)
            /\ stamps' = sent_stamps(stamps, sent_slots, sent_rows, cycle)
       ELSE sent_rows # {} /\ UNCHANGED <<sent_slots, stamps>>
    /\ pc' = "done"
    /\ ending' = IF ending = "snapshot_failed"
                 THEN (IF written THEN "snapshot_failed" ELSE "both_failed")
                 ELSE (IF written THEN "flushed" ELSE "sent_failed")
    /\ UNCHANGED <<alarms, push_subscriptions, baseline_slots, slots_snapshot, locals,
                   pushLog, established, history, aside>>

\* Lines 699-708: yyyymmdd_to_date raises ValueError while the snapshot rows are
\* built; the exception leaves main.
SnapshotDateRaises ==
    /\ pc = "loop"
    /\ i > Len(alarm_keys)
    /\ SnapshotRaises(availability)
    /\ Stop("raised")
    /\ UNCHANGED <<db, locals, pushLog, established, history, aside>>

FlushSnapshotOk == FlushSnapshot(TRUE)
FlushSnapshotFails == FlushSnapshot(FALSE)
FlushSentOk == FlushSent(TRUE)
FlushSentFails == FlushSent(FALSE)

\* The process stops (killed, host restart) between the preloads and the end.
Crash ==
    /\ pc \in {"loop", "flush_sent"}
    /\ Stop("crashed")
    /\ UNCHANGED <<db, locals, pushLog, established, history, aside>>

\* The process exits; nothing of the run but the database rows is kept.
Exit ==
    /\ pc = "done"
    /\ pc' = "idle"
    /\ availability' = <<>>
    /\ alarm_keys' = <<>>
    /\ push_map' = {}
    /\ baseline_map' = <<>>
    /\ sent_map' = <<>>
    /\ i' = 1
    /\ sent_rows' = {}
    /\ ending' = "none"
    /\ pushLog' = {}
    /\ established' = {}
    /\ establishedPrev' = established
    /\ failedPrev' = FailedPushes
    /\ okPrev' = AcceptedPushes
    /\ prevRun' = IF ending \in {"noalarms", "novalid", "flushed"} /\ FailedPushes = {}
                  THEN [ran |-> TRUE, availability |-> availability, push_map |-> push_map]
                  ELSE NoRun
    /\ UNCHANGED <<db, cycle, delivered, dup, aside>>

\* Runs in which every push succeeds or raises WebPushException and every
\* database call succeeds.
NextReliable ==
    \/ RegisterEndpoint
    \/ NoAlarms
    \/ NoValidAlarms
    \/ Preload
    \/ ProcessAlarm
    \/ PushRejected
    \/ FlushSnapshotOk
    \/ FlushSentOk
    \/ Exit

SpecReliable == Init /\ [][NextReliable]_vars

\* Runs on crawls with well-formed date keys, with every failure: also other
\* exceptions from send_push, failing database writes and a process that stops.
Next ==
    \/ NextReliable
    \/ PushRaises
    \/ InsertBaselineRaises
    \/ FlushSnapshotFails
    \/ FlushSentFails
    \/ Crash

Spec == Init /\ [][Next]_vars

\* Runs in which send_push may also raise an exception that is not a
\* WebPushException.
SpecPushErrors == Init /\ [][NextReliable \/ PushRaises]_vars

\* Runs in which the bulk writes of step 12 may fail.
SpecFlushFailures ==
    Init /\ [][NextReliable \/ FlushSnapshotFails \/ FlushSentFails]_vars

\* Runs in which the process may stop between the preloads and the end.
SpecCrash == Init /\ [][NextReliable \/ Crash]_vars

\* Runs in which the frontend writes may fail.
SpecFrontendFailures == Init /\ [][NextReliable \/ FrontendWriteFails]_vars

\* Runs in which a crawl may carry malformed date keys.
SpecMalformedDates ==
    Init /\ [][NextReliable \/ PreloadMalformed \/ SnapshotDateRaises]_vars

-----------------------------------------------------------------------------
(* The helper functions of main, each applied to one input *)

\* Scopes an alarm row may name: the court group of both facilities, a
\* facility id, and a court group no facility has.
Scopes == {GA, F1, F2, <<"<yong>", "<in>", "|", "B">>}

CurrentSlotsCalls ==
    {[fn |-> "key_to_current_slots", arg |-> [availability |-> av, key |-> <<"s1", sc, d>>]] :
        av \in Crawls, sc \in Scopes, d \in {D1, D2}}

\* Values a field of a slot record may hold.
FieldValues ==
    {None, PyStr(<<>>), PyStr(<<" ">>), PyStr(<<"1", "9">>), PyStr(<<" ", "7">>),
     PyInt(0), PyInt(9), PyDict(<<>>),
     PyDict("time" :> PyStr(<<"7">>)),
     PyDict("label" :> PyStr(<<" ">>)),
     PyDict("time" :> PyStr(<<>>) @@ "label" :> PyStr(<<"8">>)),
     PyDict("hhmm" :> PyStr(<<"7">>))}

TimeFields == {"time", "startTime", "start_time", "stime", "label", "timeContent"}
CourtFields == {"court", "courtNo", "court_no", "courtName", "court_name"}

\* The court part of a slot record: none, or one court field.
CourtParts ==
    {<<>>} \cup {f :> v : f \in CourtFields,
                          v \in {None, PyStr(<<"1">>), PyStr(<<" ">>), PyInt(2)}}

\* Slot representations: null, labels, numbers, and records with no, one or
\* two time fields and at most one court field.
SlotInputs ==
    {None, PyStr(<<>>), PyStr(<<" ">>), PyStr(<<"1", "0">>), PyStr(<<" ", "1", "0", " ">>),
     PyInt(0), PyInt(1900)}
    \cup {PyDict(c) : c \in CourtParts}
    \cup {PyDict((f :> v) @@ c) : f \in TimeFields, v \in FieldValues, c \in CourtParts}
    \cup {PyDict((f :> v) @@ (g :> w)) :
              f \in {"time", "label"}, g \in {"startTime", "timeContent"},
              v \in FieldValues, w \in FieldValues}

SlotKeyCalls == {[fn |-> "slot_key_from_time", arg |-> t] : t \in SlotInputs}

\* Slot keys a preview is built from.
KeyPool ==
    {<<"0", "6">>, <<"0", "7">>, <<"0", "8">>, <<"0", "9">>, <<"1", "0">>,
     <<"1", "1">>, <<"1", "2">>, <<"1", "3">>, <<"1", "4">>, <<"1", "9", "|", "1">>}

PushBodyCalls == {[fn |-> "push_body", arg |-> S] : S \in (SUBSET KeyPool) \ {{}}}

InitFunctions ==
    /\ alarms = <<>>
    /\ Quiescent
    /\ call \in CurrentSlotsCalls \cup SlotKeyCalls \cup PushBodyCalls
    /\ result = NoCall
    /\ HarnessIdle

Returns(fn, value) ==
    /\ call.fn = fn
    /\ result.fn = "none"
    /\ result' = [fn |-> fn, value |-> value]
    /\ UNCHANGED <<db, pc, locals, runlog, history, call, harness>>

\* Lines 614-636: the current slots of one alarm key.
EvalCurrentSlots ==
    /\ call.fn = "key_to_current_slots"
    /\ Returns("key_to_current_slots",
               key_to_current_slots(call.arg.availability, call.arg.key))

\* Lines 52-91.
EvalSlotKey ==
    /\ call.fn = "slot_key_from_time"
    /\ Returns("slot_key_from_time", slot_key_from_time(call.arg))

\* Lines 669-681: to_send from an added set with nothing sent before, and
\* the body of its message.
EvalPushBody ==
    /\ call.fn = "push_body"
    /\ Returns("push_body", PushBody(GA, D1, ToSend(call.arg, {})))

SpecFunctions ==
    InitFunctions /\ [][EvalCurrentSlots \/ EvalSlotKey \/ EvalPushBody]_vars

-----------------------------------------------------------------------------
(* benchmark_55s.py: run_timeboxed.  Between two awaits a coroutine runs      *)
(* without interruption, so one action is what a worker does from one        *)
(* suspension to the next.                                                   *)

\* Largest concurrency argument explored.
MaxConcurrency == 2
\* Number of (rid, dateVal) jobs.
NumJobs == 3
\* timebox_s, in ticks.
Timebox == 5
\* per_request_timeout_s, in ticks.
Timeout == 3
\* The 0.3 s of line 95, in ticks.
Margin == 1

\* Mutant: the deadline is computed one tick late.
deadline_Late == Timebox + 1

deadline == Timebox

\* The orders random.shuffle may leave the jobs in (the identity without it).
JobOrders ==
    {o \in [1..NumJobs -> 1..NumJobs] : \A a, b \in 1..NumJobs : a # b => o[a] # o[b]}

\* Line 122: max(1, concurrency) workers.
WorkerIds == 1..(IF concurrency < 1 THEN 1 ELSE concurrency)

InFlight == {w \in DOMAIN workers : workers[w].pc = "fetch"}

\* Lines 57-81 and 122: the queue is filled, the clock started, the semaphore
\* made and the workers created; none has run yet.
InitHarness ==
    /\ alarms = <<>>
    /\ Quiescent
    /\ call = NoCall
    /\ result = NoCall
    /\ concurrency \in 0..MaxConcurrency
    /\ q \in JobOrders
    /\ now = 0
    /\ sem = concurrency
    /\ workers = [w \in WorkerIds |-> [pc |-> "new", job |-> 0, t0 |-> 0, exit |-> ""]]
    /\ ok = 0
    /\ fail = 0
    /\ fail_reasons = <<>>
    /\ durations = <<>>
    /\ fetchLog = <<>>
    /\ returned = NoResult

main_vars == <<db, pc, locals, runlog, history, call, result>>

\* Mutant: the queue hands out its first job and keeps it.
get_nowait_Peek(queue) == [item |-> Head(queue), rest |-> queue]

\* Line 90, q.get_nowait() on a queue that is not empty: the first job, and
\* the queue without it.
get_nowait(queue) == [item |-> Head(queue), rest |-> Tail(queue)]

\* Mutant: only the timeout is caught.
Handled_TimeoutOnly(outcome) == outcome \in {"ok", "TimeoutError"}

\* Lines 100-119: how fetch_times may end, "ok" for a returned list and the
\* exception's type name otherwise; every one of them is handled in one() --
\* asyncio.TimeoutError by line 109, the others by line 114.
Handled(outcome) == outcome \in {"ok", "TimeoutError", "ClientError"}

\* Mutant: every failure is filed under the type name.
Label_TypeName(outcome) == outcome

\* Lines 113 and 118: the key of fail_reasons a failure is counted under.
Label(outcome) == IF outcome = "TimeoutError" THEN "timeout" ELSE outcome

\* Mutant: the semaphore lets a caller in at value 0.
SemaphoreFree_Always(value) == TRUE

\* asyncio.Semaphore: acquire returns at once when the value is positive.
SemaphoreFree(value) == value > 0

\* Lines 84-101: worker w, running, goes round the loop of one() until it
\* returns or suspends; value is the semaphore's value and log the history of
\* calls at that point.  The two
\* readings of the clock (lines 86 and 95) fall in the same tick.  A worker
\* that finds the semaphore at 0 suspends in acquire, holding the job it took.
Continue(w, value, log) ==
    LET Return(why) == [pc |-> "done", job |-> 0, t0 |-> 0, exit |-> why]
    IN  IF now >= deadline THEN
            /\ workers' = [workers EXCEPT ![w] = Return("deadline")]
            /\ sem' = value
            /\ q' = q /\ fetchLog' = log
        ELSE IF q = <<>> THEN
            /\ workers' = [workers EXCEPT ![w] = Return("empty")]
            /\ sem' = value
            /\ q' = q /\ fetchLog' = log
        ELSE IF now + Margin >= deadline THEN
            /\ q' = get_nowait(q).rest
            /\ workers' = [workers EXCEPT ![w] = Return("margin")]
            /\ sem' = value
            /\ fetchLog' = log
        ELSE IF SemaphoreFree(value) THEN
            /\ q' = get_nowait(q).rest
            /\ sem' = value - 1
            /\ workers' = [workers EXCEPT ![w] =
                              [pc |-> "fetch", job |-> get_nowait(q).item, t0 |-> now, exit |-> ""]]
            /\ fetchLog' = Append(log, [job |-> get_nowait(q).item, w |-> w, t0 |-> now,
                                        end |-> -1, outcome |-> ""])
        ELSE
            /\ q' = get_nowait(q).rest
            /\ sem' = value
            /\ workers' = [workers EXCEPT ![w] =
                              [pc |-> "wait", job |-> get_nowait(q).item, t0 |-> 0, exit |-> ""]]
            /\ fetchLog' = log

\* A worker task runs for the first time.
WorkerStarts ==
    \E w \in DOMAIN workers :
       /\ workers[w].pc = "new"
       /\ Continue(w, sem, fetchLog)
       /\ UNCHANGED <<main_vars, concurrency, now, ok, fail, fail_reasons, durations,
                      returned>>

\* Lines 99-119: fetch_times of worker w ends; the duration and the counter
\* are recorded, the permit is released, and the worker goes on.  An exception
\* no except clause caught would release the permit, end the worker's task
\* and, through gather, run_timeboxed.
FetchEnds(w, outcome) ==
    LET closed == [n \in DOMAIN fetchLog |->
                      IF fetchLog[n].job = workers[w].job
                      THEN [fetchLog[n] EXCEPT !.end = now, !.outcome = outcome]
                      ELSE fetchLog[n]]
    IN  /\ workers[w].pc = "fetch"
        /\ IF Handled(outcome)
           THEN /\ durations' = Append(durations, now - workers[w].t0)
                /\ ok' = IF outcome = "ok" THEN ok + 1 ELSE ok
                /\ fail' = IF outcome = "ok" THEN fail ELSE fail + 1
                /\ fail_reasons' =
                      IF outcome = "ok" THEN fail_reasons
                      ELSE [label \in DOMAIN fail_reasons \cup {Label(outcome)} |->
                               IF label = Label(outcome)
                               THEN (IF label \in DOMAIN fail_reasons
                                     THEN fail_reasons[label] ELSE 0) + 1
                               ELSE fail_reasons[label]]
                /\ Continue(w, sem + 1, closed)
                /\ UNCHANGED returned
           ELSE /\ workers' = [workers EXCEPT ![w] =
                                  [pc |-> "done", job |-> 0, t0 |-> 0, exit |-> "raised"]]
                /\ sem' = sem + 1
                /\ fetchLog' = closed
                /\ returned' = [jobs_total |-> NumJobs, raised |-> outcome]
                /\ UNCHANGED <<q, durations, ok, fail, fail_reasons>>
        /\ UNCHANGED <<main_vars, concurrency, now>>

\* fetch_times returns a list, empty or not.
FetchReturns == \E w \in DOMAIN workers : FetchEnds(w, "ok")

\* The request exceeds per_request_timeout_s: asyncio.TimeoutError.
FetchTimesOut ==
    \E w \in DOMAIN workers :
       now - workers[w].t0 >= Timeout /\ FetchEnds(w, "TimeoutError")

\* fetch_times raises another exception.
FetchRaises == \E w \in DOMAIN workers : FetchEnds(w, "ClientError")

\* Time passes while the coroutines are suspended; a request does not outlast
\* its timeout.
Tick ==
    /\ workers # <<>>
    /\ returned = NoResult
    /\ now < Timebox + Timeout
    /\ \A w \in InFlight : now - workers[w].t0 < Timeout
    /\ now' = now + 1
    /\ UNCHANGED <<main_vars, concurrency, q, sem, workers, ok, fail, fail_reasons,
                   durations, fetchLog, returned>>

\* What run_timeboxed returns (lines 125-142), without the timing statistics.
ResultDict ==
    [jobs_total |-> NumJobs, completed_requests |-> ok + fail,
     ok_requests |-> ok, fail_requests |-> fail,
     fail_reasons |-> fail_reasons, concurrency |-> concurrency]

\* Mutant: the result is produced at the deadline, whatever is in flight.
Gather_Early ==
    /\ workers # <<>>
    /\ returned = NoResult
    /\ now >= deadline
    /\ returned' = ResultDict
    /\ UNCHANGED <<main_vars, concurrency, q, now, sem, workers, ok, fail, fail_reasons,
                   durations, fetchLog>>

\* Lines 123-142: gather returns when every worker has returned.
Gather ==
    /\ workers # <<>>
    /\ returned = NoResult
    /\ \A w \in DOMAIN workers : workers[w].pc = "done"
    /\ returned' = ResultDict
    /\ UNCHANGED <<main_vars, concurrency, q, now, sem, workers, ok, fail, fail_reasons,
                   durations, fetchLog>>

SpecHarness ==
    InitHarness
    /\ [][WorkerStarts \/ FetchReturns \/ FetchTimesOut \/ FetchRaises \/ Tick \/ Gather]_vars

\* The event loop runs every task that can run, time passes, and every fetch
\* ends: it returns, raises or is cut off by the ClientTimeout of line 78.
SpecHarnessFair ==
    /\ SpecHarness
    /\ WF_vars(WorkerStarts)
    /\ WF_vars(FetchReturns \/ FetchTimesOut \/ FetchRaises)
    /\ WF_vars(Tick)
    /\ WF_vars(Gather)

-----------------------------------------------------------------------------
(* Vocabulary of the properties *)

\* The baseline rows of an alarm key.
Baseline(key) ==
    {r[4] : r \in {x \in baseline_slots : <<x[1], x[2], x[3]>> = key}}

\* The current slot keys of an alarm key in the latest run.
Cur(key) == key_to_current_slots(availability, key)

Keys == Range(alarm_keys)

\* The alarm keys the latest run evaluated against a baseline that existed
\* when the run started.
Diffed == {key \in Keys : key[1] \in push_map /\ key \notin established
                          /\ Baseline(key) # {}}

PushesFor(key) == {e \in pushLog : e.key = key}

Pushed(key, sk) == \E e \in PushesFor(key) : sk \in Range(e.to_send)

AlarmKeyUniverse == {AlarmKey(AllAlarms[n]) : n \in DOMAIN AllAlarms}

-----------------------------------------------------------------------------
(* Properties *)

\* C1 -- At-most-once delivery.  When every push succeeds or raises a delivery
\* error and every flush succeeds, no (subscription id, scope, date, slot key)
\* is accepted by the transport twice; no push carries a slot key that
\* sent_slots held for the subscription id when the run started; and the keys
\* of an accepted push are in sent_map and sent_rows at once and in sent_slots
\* when the run has flushed.
AtMostOnceDelivery ==
    /\ dup = {}
    /\ pc \in {"loop", "flush_sent"} =>
         \A e \in pushLog :
            /\ \A sk \in Range(e.to_send) : <<e.key[1], sk>> \notin sent_slots
            /\ e.res = "ok" =>
                 \A sk \in Range(e.to_send) :
                    sk \in sent_map[e.key[1]] /\ <<e.key[1], sk>> \in sent_rows
    /\ (pc = "done" /\ ending = "flushed") =>
         \A e \in pushLog :
            e.res = "ok" => \A sk \in Range(e.to_send) : <<e.key[1], sk>> \in sent_slots

\* C1 witness: a run has completed in which a slot key pushed by the run
\* before is still among the current slots of its alarm key.
DeliveredSlotSeenAgain ==
    /\ pc = "done" /\ ending = "flushed"
    /\ \E o \in okPrev : o[2] \in Cur(o[1])

\* C2 -- Baseline suppression.  The run that inserts the baseline of an alarm
\* key attempts no push for it, the baseline it inserts is the key's current
\* slot set, and the run after it attempts no push for the key when the key's
\* current slot set is that same set.
BaselineSuppression ==
    /\ \A key \in established : Baseline(key) = Cur(key) /\ PushesFor(key) = {}
    /\ \A key \in establishedPrev : Cur(key) = Baseline(key) => PushesFor(key) = {}

\* C2 witness: the run after the one that inserted a baseline has completed,
\* evaluated the key and saw the same current slot set.
SameSlotsAfterBaseline ==
    /\ pc = "done" /\ ending = "flushed"
    /\ \E key \in establishedPrev \cap Keys :
          key[1] \in push_map /\ Cur(key) = Baseline(key)

\* C3 -- Single notification per new slot (as claimed).  A run that evaluates
\* an alarm key whose baseline exists, with a current slot key outside the
\* baseline that sent_slots did not hold at the start of the run, attempts
\* exactly one push for the key; the keys of an accepted push are in
\* sent_slots after the flush; the next run attempts no push for such a key
\* when the alarm key's current slots are the same.
SingleNotificationPerNewSlot ==
    /\ pc = "flush_sent" =>
         \A key \in Diffed :
            (\E k \in Cur(key) \ Baseline(key) : <<key[1], k>> \notin sent_slots)
               => Cardinality(PushesFor(key)) = 1
    /\ (pc = "done" /\ ending = "flushed") =>
         \A e \in pushLog :
            e.res = "ok" => \A sk \in Range(e.to_send) : <<e.key[1], sk>> \in sent_slots
    /\ pc \in {"flush_sent", "done"} =>
         \A o \in okPrev : Cur(o[1]) = o[3] => ~Pushed(o[1], o[2])

\* C4 -- Dedup scoped by (subscriber, scope, date, slot key) (as claimed).
\* When the loop of a run is over, every current slot key outside the baseline
\* of an evaluated alarm key was pushed for that alarm key in this run, unless
\* the transport had accepted it for that same (subscriber, scope, date).
DedupScopedByScopeAndDate ==
    pc = "flush_sent" =>
       \A key \in Diffed :
          \A k \in Cur(key) \ Baseline(key) :
             Pushed(key, k) \/ <<key[1], key[2], key[3], k>> \in delivered

\* C5 -- Delivery-failure isolation (as claimed).  A run in which a push
\* failed, with whatever error, went on through all alarm keys and both
\* flushes, and wrote to sent_rows only keys of accepted pushes.
DeliveryFailureIsolated ==
    (pc = "done" /\ \E e \in pushLog : e.res # "ok") =>
       /\ ending = "flushed"
       /\ i > Len(alarm_keys)
       /\ \A r \in sent_rows :
             \E e \in pushLog :
                e.res = "ok" /\ e.key[1] = r[1] /\ r[2] \in Range(e.to_send)

\* C6 -- Retry on the next cycle only (as claimed).  A run attempts at most
\* one push per alarm key, and a slot key whose push failed in the run before
\* and that is still current is in a push of this run for that alarm key.
RetriedOnNextCycleOnly ==
    /\ \A key \in Keys : Cardinality(PushesFor(key)) <= 1
    /\ pc = "flush_sent" =>
         \A f \in failedPrev :
            (f[1] \in Keys /\ f[1][1] \in push_map /\ f[2] \in Cur(f[1]))
               => Pushed(f[1], f[2])

\* C7 -- No duplicate under store failure (as claimed).  A slot key that the
\* transport accepted for a subscriber in a run whose Snapshot or Sent-Log
\* flush failed is not accepted for that subscriber again in the next run.
NoResendAfterFlushFailure ==
    \A o \in okPrev :
       o[4] \in {"snapshot_failed", "sent_failed", "both_failed"} =>
          \A e \in pushLog :
             (e.res = "ok" /\ e.key[1] = o[1][1]) => o[2] \notin Range(e.to_send)

\* C8 -- Crash idempotence (as claimed).  A slot key that the transport
\* accepted for an alarm key in a run that then stopped before its flush is
\* not pushed for that alarm key by the next run on the same current slots.
NoResendAfterCrash ==
    \A o \in okPrev :
       (o[4] = "crashed" /\ Cur(o[1]) = o[3]) => ~Pushed(o[1], o[2])

\* C9 -- Snapshot recording every cycle (as claimed).  When a run has ended
\* without a failure, every (facility, date, non-empty slot key) it crawled is
\* in slots_snapshot.
SnapshotRecordedEveryCycle ==
    (pc = "done" /\ ending \in {"noalarms", "novalid", "flushed"}) =>
       SnapshotRows(availability) \subseteq slots_snapshot

\* C10 -- Baseline established once.  Baseline rows of an alarm key, once
\* there, are never added to nor removed; the rows first inserted are the
\* key's current slots; and the step that evaluates a key without baseline
\* against a non-empty current set inserts them.
BaselineEstablishedOnce ==
    [][\A key \in AlarmKeyUniverse :
          /\ Baseline(key) # {} => Baseline(key)' = Baseline(key)
          /\ (Baseline(key) = {} /\ Baseline(key)' # {}) =>
                (Baseline(key)' = Cur(key) /\ pc = "loop")
          /\ (pc = "loop" /\ i' = i + 1 /\ alarm_keys[i] = key
              /\ key[1] \in push_map /\ Cur(key) # {} /\ Baseline(key) = {})
                => Baseline(key)' = Cur(key)]_vars

\* C10 witness: a run has completed that evaluated an alarm key with an older
\* baseline against a non-empty current set that differs from the baseline.
BaselineKeptOnChange ==
    /\ pc = "done" /\ ending = "flushed"
    /\ \E key \in Diffed : Cur(key) # {} /\ Cur(key) # Baseline(key)

\* The latest run crawled the availability of the run before it and loaded the
\* same endpoints, and that run ended with every push accepted and every
\* write done.
Rerun ==
    /\ prevRun.ran
    /\ prevRun.availability = availability
    /\ prevRun.push_map = push_map

\* added and to_send of the alarm key the loop is at, from main's own maps.
AddedAt(n) ==
    Added(key_to_current_slots(availability, alarm_keys[n]),
          MapGet(baseline_map, alarm_keys[n], {}))

ToSendAt(n) == ToSend(AddedAt(n), MapGet(sent_map, alarm_keys[n][1], {}))

ScopeIsFacilityOrGroup ==
    result.fn = "key_to_current_slots" =>
       LET av == call.arg.availability
           scope == call.arg.key[2]
           ymd == call.arg.key[3]
           fids == IF scope \in DOMAIN Facilities THEN {scope}
                   ELSE {fid \in DOMAIN Facilities :
                           get_court_group(Facilities[fid].title, fid) = scope}
           slots(fid) == MapGet(MapGet(av, fid, <<>>), ymd, <<>>)
       IN  result.value =
              UNION {{slot_key_from_time(slots(fid)[n]) : n \in DOMAIN slots(fid)} :
                        fid \in fids} \ {<<>>}

\* C13 -- Malformed DateKey is non-fatal (as claimed).  A run that gets past
\* the alarm checks ends with both flushes done, whatever date keys the crawl
\* carried, and no row of baseline_slots or slots_snapshot carries a date
\* that is not a calendar date of 8 characters.
MalformedDateKeySkipped ==
    /\ (pc = "done" /\ ending \notin {"noalarms", "novalid"}) => ending = "flushed"
    /\ \A r \in baseline_slots : Len(r[3]) = 8 /\ ~yyyymmdd_to_date_raises(r[3])
    /\ \A r \in slots_snapshot : Len(r[2]) = 8 /\ ~yyyymmdd_to_date_raises(r[2])

\* C14 -- The empty slot key never enters a set or a store.  No current set,
\* preloaded map, push, sent row, baseline row or snapshot row holds "".
NoEmptySlotKey ==
    /\ \A key \in Keys : <<>> \notin Cur(key)
    /\ \A k \in DOMAIN baseline_map : <<>> \notin baseline_map[k]
    /\ \A sid \in DOMAIN sent_map : <<>> \notin sent_map[sid]
    /\ \A e \in pushLog : <<>> \notin Range(e.to_send)
    /\ \A r \in sent_rows \cup sent_slots : r[2] # <<>>
    /\ \A r \in baseline_slots : r[4] # <<>>
    /\ \A r \in slots_snapshot : r[3] # <<>>

\* C14 witness: a run has flushed after inserting the baseline of an alarm
\* key on whose date a facility of its group lists a slot that derives "".
EmptyKeyDerivedAndDropped ==
    /\ pc = "done" /\ ending = "flushed"
    /\ \E key \in established :
          \E fid \in group_to_fids(key[2]) :
             LET day == MapGet(MapGet(availability, fid, <<>>), key[3], <<>>)
             IN  \E n \in DOMAIN day : slot_key_from_time(day[n]) = <<>>

\* The text of a body after the "new slots" label.
AfterLabel(body) ==
    LET head == Len(GA) + 6 + Len(NewSlotsLabel)
    IN  SubSeq(body, head + 1, Len(body))

\* C15 -- Preview truncation.  For the n keys of to_send, in sorted order,
\* the body lists after its label the first min(n, 6) keys, each but the
\* first preceded by ", ", and ends there when n <= 6, and ends with
\* " <oe> (n-6)<gae>" when n > 6.
PreviewTruncation ==
    result.fn = "push_body" =>
       LET keys == Sorted(call.arg)
           n == Len(keys)
           shown == IF n < 6 THEN n ELSE 6
           text == AfterLabel(result.value)
           \* where the k-th key starts in text
           start(k) == 1 + 2 * (k - 1)
                         + Len(Join(<<>>, SubSeq(keys, 1, k - 1)))
           listed == start(shown + 1) - 3
           tail == SubSeq(text, listed + 1, Len(text))
       IN  /\ \A k \in 1..shown :
                 /\ SubSeq(text, start(k), start(k) + Len(keys[k]) - 1) = keys[k]
                 /\ k > 1 => SubSeq(text, start(k) - 2, start(k) - 1) = <<",", " ">>
           /\ \A k \in 1..(n - 1) : StrLess(keys[k], keys[k + 1])
           /\ n <= 6 => tail = <<>>
           /\ n > 6 => tail = <<" ", "<oe>", " ">> \o IntToStr(n - 6) \o <<"<gae>">>

\* C15 witness: a body was built for nine keys and ends with " <oe> 3<gae>".
NineKeysPreviewed ==
    /\ result.fn = "push_body"
    /\ Cardinality(call.arg) = 9
    /\ SubSeq(result.value, Len(result.value) - 4, Len(result.value))
          = <<" ", "<oe>", " ", "3", "<gae>">>

\* The stripped text of a field that holds a label; "" for a null field.
FieldText(v) == IF v.type = "str" THEN Strip(v.s) ELSE <<>>

\* The usable time texts, and the court texts, of a slot record.
UsableTimes(t) == {FieldText(t.d[f]) : f \in DOMAIN t.d \cap TimeFields} \ {<<>>}
CourtTexts(t) == {FieldText(t.d[f]) : f \in DOMAIN t.d \cap CourtFields} \ {<<>>}

\* C16 -- Slot key derivation is total (as claimed).  slot_key_from_time
\* returns "" for null and the stripped label for a label; for a record
\* whose fields hold labels or null it returns "" exactly when no time field
\* holds a text that is not blank, "<time>|<court>" when a time and a court
\* are there, and "<time>" when only a time is there.
SlotKeyTotal ==
    result.fn = "slot_key_from_time" =>
       LET t == call.arg
           sk == result.value
       IN  /\ t.type = "none" => sk = <<>>
           /\ t.type = "str" => sk = Strip(t.s)
           /\ (t.type = "dict" /\ \A f \in DOMAIN t.d : t.d[f].type \in {"str", "none"}) =>
                 /\ sk = <<>> <=> UsableTimes(t) = {}
                 /\ (UsableTimes(t) # {} /\ CourtTexts(t) # {}) =>
                       \E tm \in UsableTimes(t), ct \in CourtTexts(t) :
                          sk = tm \o <<"|">> \o ct
                 /\ (UsableTimes(t) # {} /\ CourtTexts(t) = {}) => sk \in UsableTimes(t)

\* The slot keys of the pushes attempted for an alarm key in the latest run.
KeysPushedFor(key) == UNION {Range(e.to_send) : e \in PushesFor(key)}

\* C17 -- Subscription-local baseline (as claimed).  When the loop of a run
\* is over, the slot keys pushed for an evaluated alarm key are a function of
\* that key's own baseline, the availability and the sent rows its
\* subscription id had when the run started: the current slots outside the
\* baseline that had not been sent.  Neither slots_snapshot nor the baseline
\* of another alarm key enters.
PushesFromOwnBaselineOnly ==
    pc = "flush_sent" =>
       \A key \in Diffed :
          KeysPushedFor(key) =
             {sk \in Cur(key) \ Baseline(key) : <<key[1], sk>> \notin sent_slots}

\* The slot keys that the latest crawl lists, whatever their text, for a
\* facility of the group on the date.
Crawled(group, ymd) ==
    UNION {{slot_key_from_time(availability[fid][ymd][n]) :
               n \in DOMAIN availability[fid][ymd]} :
           fid \in {f \in DOMAIN availability \cap DOMAIN Facilities :
                      /\ get_court_group(Facilities[f].title, f) = group
                      /\ ymd \in DOMAIN availability[f]}}

\* C18 -- Baseline provenance.  Every step that adds rows to baseline_slots
\* is a step of a run, and each row it adds carries a slot key that the
\* run's crawl lists for a facility of the row's court group on the row's
\* date; rows are never added in any other way.
BaselineProvenance ==
    [][\A r \in baseline_slots' \ baseline_slots :
          /\ pc = "loop"
          /\ availability' = availability
          /\ r[4] \in Crawled(r[2], r[3])]_vars

\* C18 witness: a run has flushed that inserted a baseline of two slot keys
\* gathered from two entries of the crawl.
BaselineFromCrawl ==
    /\ pc = "done" /\ ending = "flushed"
    /\ \E key \in established : Cardinality(Baseline(key)) = 2

\* The alarm keys that only disabled rows of public.alarms name.
DisabledKeys ==
    {AlarmKey(a) : a \in {x \in Range(alarms) : ~x.enabled}}
       \ {AlarmKey(a) : a \in {x \in Range(alarms) : x.enabled}}

\* C19 -- Disabled subscriptions are invisible (as claimed).  No baseline row
\* and no push exists for an alarm key that only a disabled row names.
DisabledInvisible ==
    \A key \in DisabledKeys : Baseline(key) = {} /\ PushesFor(key) = {}

\* C20 -- Bounded concurrency.  The number of fetches in flight never exceeds
\* the semaphore's capacity, the concurrency argument; the permits taken and
\* the permits left add up to the capacity.
BoundedConcurrency ==
    workers # <<>> =>
       /\ Cardinality(InFlight) <= concurrency
       /\ sem >= 0
       /\ sem + Cardinality(InFlight) = concurrency

\* C20 witness: as many fetches are in flight as the capacity allows, with
\* jobs left in the queue.
CapacityReached ==
    /\ concurrency = MaxConcurrency
    /\ Cardinality(InFlight) = concurrency
    /\ q # <<>>

\* The fetches a step starts, and the workers that return in it.
Started == {n \in DOMAIN fetchLog' : n > Len(fetchLog)}
Returning == {w \in DOMAIN workers : workers[w].pc # "done" /\ workers'[w].pc = "done"}

\* C21 -- Deadline safety margin.  A fetch is started only at a time more than
\* the margin (300 ms) before the end of the timebox, after a wait for a permit
\* as well (only a worker of a run with concurrency 0 ever waits); a worker
\* that finds the deadline passed returns and leaves the queue as it is.
DeadlineMargin ==
    [][/\ \A n \in Started :
            /\ fetchLog'[n].t0 = now
            /\ now + Margin < Timebox
       /\ \A w \in DOMAIN workers :
            /\ workers[w].pc = "wait" => concurrency = 0
            /\ (workers[w].pc = "wait" /\ workers'[w].pc = "fetch") => now + Margin < Timebox
       /\ \A w \in Returning : now >= Timebox => q' = q]_vars

\* C21 witness: a fetch was started at the last admissible tick, and a worker
\* has returned on the deadline with jobs still queued.
LastAdmissibleStart ==
    /\ \E n \in DOMAIN fetchLog : fetchLog[n].t0 + Margin + 1 = Timebox
    /\ \E w \in DOMAIN workers : workers[w].exit = "deadline"
    /\ q # <<>>

\* C22 -- Soft cancellation.  A fetch in flight stays in flight, whatever the
\* clock shows, until it ends by itself, and the step that ends it counts it;
\* no fetch is started once the deadline has passed; run_timeboxed returns only
\* when no fetch is in flight, with every fetch that was started counted.
SoftCancellation ==
    [][/\ \A w \in InFlight :
            \/ workers'[w] = workers[w]
            \/ /\ ok' + fail' = ok + fail + 1
               /\ Len(durations') = Len(durations) + 1
               /\ \E n \in DOMAIN fetchLog :
                     /\ fetchLog[n].job = workers[w].job
                     /\ fetchLog'[n].end = now
                     /\ fetchLog'[n].end - fetchLog'[n].t0 <= Timeout
       /\ Started # {} => now < Timebox
       /\ returned' # returned =>
            /\ InFlight = {}
            /\ \A n \in DOMAIN fetchLog : fetchLog[n].end >= fetchLog[n].t0
            /\ returned'.completed_requests = Len(fetchLog)]_vars

\* C22 witness: run_timeboxed has returned after the deadline, and a fetch that
\* was in flight when the deadline passed ended later and was counted.
FinishedAfterDeadline ==
    /\ returned # NoResult
    /\ returned.completed_requests = Len(fetchLog)
    /\ \E n \in DOMAIN fetchLog :
          fetchLog[n].t0 < Timebox /\ fetchLog[n].end > Timebox

\* C23 -- Ingestion failure never aborts the run.  The step in which a fetch
\* times out or raises records the failure for that job and under its label,
\* and in the same step the worker claims the first queued job if there is one
\* and the deadline allows; run_timeboxed has not ended by it.
FailureNeverAborts ==
    [][\A w \in InFlight :
          \A n \in DOMAIN fetchLog :
             (fetchLog[n].job = workers[w].job /\ fetchLog'[n].outcome \notin {"", "ok"}) =>
                /\ fail' = fail + 1
                /\ Label(fetchLog'[n].outcome) \in DOMAIN fail_reasons'
                /\ returned' = NoResult
                /\ workers'[w].exit # "raised"
                /\ (q # <<>> /\ now + Margin < Timebox) =>
                      /\ workers'[w].pc = "fetch"
                      /\ workers'[w].job = Head(q)
                      /\ q' = Tail(q)]_vars

\* C23 witness: one worker's fetch timed out, another fetch of the same worker
\* raised, and the worker fetched a third job after them.
WorkerSurvivesFailures ==
    \E k, m, n \in DOMAIN fetchLog :
       /\ k # m /\ k < n /\ m < n
       /\ fetchLog[k].w = fetchLog[n].w /\ fetchLog[m].w = fetchLog[n].w
       /\ fetchLog[k].outcome = "TimeoutError"
       /\ fetchLog[m].outcome = "ClientError"

\* The fetches of the history that ended as outcome.
Ended(outcome) == {n \in DOMAIN fetchLog : fetchLog[n].outcome = outcome}
\* fail_reasons.get(label, 0)
Reasons(label) == IF label \in DOMAIN fail_reasons THEN fail_reasons[label] ELSE 0

\* C27 -- Fetch classification and counters.  At every point ok counts the
\* fetches that returned, fail those that timed out or raised, the former
\* under the label "timeout" and the latter under the exception's type name;
\* a fetch is counted when it ends and not before; ok + fail is the number of
\* durations; the labels' counts add up to fail; and the result reports
\* completed_requests = ok + fail, every started fetch counted, at most
\* jobs_total.
FetchCounters ==
    workers # <<>> =>
       /\ ok = Cardinality(Ended("ok"))
       /\ fail = Cardinality(Ended("TimeoutError")) + Cardinality(Ended("ClientError"))
       /\ Cardinality(Ended("")) = Cardinality(InFlight)
       /\ ok + fail = Len(durations)
       /\ DOMAIN fail_reasons \subseteq {"timeout", "ClientError"}
       /\ Reasons("timeout") = Cardinality(Ended("TimeoutError"))
       /\ Reasons("ClientError") = Cardinality(Ended("ClientError"))
       /\ Reasons("timeout") + Reasons("ClientError") = fail
       /\ returned # NoResult =>
             /\ returned.completed_requests = ok + fail
             /\ returned.ok_requests = ok
             /\ returned.fail_requests = fail
             /\ returned.fail_reasons = fail_reasons
             /\ returned.completed_requests = Len(fetchLog)
             /\ returned.completed_requests <= returned.jobs_total

\* C27 witness: a result that reports a success, a timeout and another
\* failure.
EveryKindCounted ==
    /\ returned # NoResult
    /\ returned.ok_requests = 1
    /\ Reasons("timeout") = 1
    /\ Reasons("ClientError") = 1

\* The jobs workers hold: being fetched, or taken and waiting for a permit.
Held(w) == IF workers[w].pc \in {"fetch", "wait"} THEN {workers[w].job} ELSE {}

\* C28 -- Safe sharing between workers.  No job is in the history of fetches
\* twice, no job is held by two workers, a job that was claimed is no longer
\* in the queue, and every fetch that ended has added one to ok or to fail.
SafeSharing ==
    workers # <<>> =>
       /\ \A m, n \in DOMAIN fetchLog : fetchLog[m].job = fetchLog[n].job => m = n
       /\ \A v, w \in DOMAIN workers : v # w => Held(v) \cap Held(w) = {}
       /\ \A n \in DOMAIN fetchLog : fetchLog[n].job \notin Range(q)
       /\ \A w \in DOMAIN workers : Held(w) \cap Range(q) = {}
       /\ \A m, n \in DOMAIN q : q[m] = q[n] => m = n
       /\ ok + fail = Cardinality({n \in DOMAIN fetchLog : fetchLog[n].outcome # ""})

\* C28 witness: two workers had fetches in flight at the same time, both for
\* two ticks, and both have been counted.
OverlappingFetchesCounted ==
    \E m, n \in DOMAIN fetchLog :
       /\ fetchLog[m].w # fetchLog[n].w
       /\ fetchLog[m].t0 = fetchLog[n].t0
       /\ fetchLog[m].end = fetchLog[m].t0 + 2
       /\ fetchLog[n].end = fetchLog[n].t0 + 2
       /\ ok + fail >= 2

\* C29 -- No job is lost.  When run_timeboxed has returned, the requests it
\* completed and the jobs left in the queue are all the jobs.
NoJobLost ==
    returned # NoResult => returned.completed_requests + Len(q) = returned.jobs_total

\* C30 -- Termination of the harness.  For every concurrency from 0 up, with
\* every fetch ending, run_timeboxed produces its result.
HarnessTerminates == <>(returned # NoResult)

\* What the preloads of a run hold for an alarm key before the first key is
\* evaluated: the current slots that are neither in its preloaded baseline nor
\* among the preloaded sent keys of its subscription id.
NewAtPreload(key) ==
    LET sent == preload_sent_slots(sent_slots, sub_ids(alarms),
                                   all_candidate_slot_keys(availability, alarm_keys))
    IN  {sk \in Cur(key) \ MapGet(baseline_map, key, {}) : sk \notin sent[key[1]]}

\* C24 -- The cycle result is a pure function of the preloaded state (as
\* claimed).  Whatever the position of an alarm key in the order of evaluation,
\* what is pushed for it is what the preloads held for it: the outcome it
\* would have were it evaluated first.
OrderIndependent ==
    pc = "flush_sent" =>
       /\ \A e \in pushLog : Range(e.to_send) = NewAtPreload(e.key)
       /\ \A key \in Diffed : NewAtPreload(key) # {} => PushesFor(key) # {}

\* C25 -- Stores are append-only with first-write-wins.  No step removes a row
\* of slots_snapshot, baseline_slots or sent_slots; a step leaves first_seen_at
\* of every existing snapshot row alone and changes its last_seen_at only for
\* a key the run's crawl lists again; sent_at of an existing row never
\* changes; and writing again any rows a table already holds, at a later
\* time, leaves baseline_slots and sent_slots with their timestamps as they
\* are, and slots_snapshot with only last_seen_at of those rows changed.
StoresAppendOnly ==
    [][/\ slots_snapshot \subseteq slots_snapshot'
       /\ baseline_slots \subseteq baseline_slots'
       /\ sent_slots \subseteq sent_slots'
       /\ DOMAIN stamps'.first_seen_at = slots_snapshot'
       /\ DOMAIN stamps'.last_seen_at = slots_snapshot'
       /\ DOMAIN stamps'.sent_at = sent_slots'
       /\ \A k \in slots_snapshot :
            /\ stamps'.first_seen_at[k] = stamps.first_seen_at[k]
            /\ stamps'.last_seen_at[k] # stamps.last_seen_at[k] =>
                  /\ k \in SnapshotRows(availability)
                  /\ stamps'.last_seen_at[k] = cycle
       /\ \A k \in slots_snapshot' \ slots_snapshot :
            stamps'.first_seen_at[k] = cycle /\ stamps'.last_seen_at[k] = cycle
       /\ \A k \in sent_slots : stamps'.sent_at[k] = stamps.sent_at[k]
       /\ \A rows \in SUBSET sent_slots' :
            /\ bulk_mark_sent(sent_slots', rows) = sent_slots'
            /\ sent_stamps(stamps', sent_slots', rows, cycle + 1) = stamps'
       /\ \A r \in baseline_slots' :
            insert_baseline(baseline_slots', r[1], r[2], r[3], {r[4]}) = baseline_slots'
       /\ \A rows \in SUBSET slots_snapshot' :
            LET st == snapshot_stamps(stamps', slots_snapshot', rows, cycle + 1)
            IN  /\ bulk_upsert_slots_snapshot(slots_snapshot', rows) = slots_snapshot'
                /\ st.first_seen_at = stamps'.first_seen_at
                /\ \A k \in slots_snapshot' :
                      st.last_seen_at[k] =
                         IF k \in rows THEN cycle + 1 ELSE stamps'.last_seen_at[k]]_vars

\* C25 witness: a snapshot row first seen in the first run has been seen again
\* in the third, where a row seen in the first run only and a row sent in the
\* second run are still stored with their first timestamps.
RowsKeptAcrossRuns ==
    /\ cycle = 3
    /\ \E k \in slots_snapshot :
          stamps.first_seen_at[k] = 1 /\ stamps.last_seen_at[k] = 3
    /\ \E k \in slots_snapshot :
          stamps.last_seen_at[k] = 1 /\ k \notin SnapshotRows(availability)
    /\ \E k \in sent_slots : stamps.sent_at[k] = 2
    /\ baseline_slots # {}

\* C26 -- Optional-write failure is non-fatal (as claimed).  A run, whether
\* its frontend writes failed or not, ends by one of main's returns: with no
\* alarm rows, with no valid alarm, or after the alarm keys were evaluated and
\* the snapshot rows and sent rows flushed.
FrontendFailureNonFatal ==
    pc = "done" =>
       /\ ending \in {"noalarms", "novalid", "flushed"}
       /\ ending = "flushed" =>
             /\ i > Len(alarm_keys)
             /\ SnapshotRows(availability) \subseteq slots_snapshot
             /\ sent_rows \subseteq sent_slots

\* C31 -- Slots present when the baseline was established are never notified.
\* No push attempted in a run, and no push the transport ever accepted,
\* carries a slot key of the baseline of its alarm key, whether the slot has
\* been crawled in every run since or not; and for an alarm key whose baseline
\* the run established, whatever it was evaluated against before, no push is
\* attempted in that run and every current slot is in the baseline.
BaselineNeverNotified ==
    /\ \A e \in pushLog : Range(e.to_send) \cap Baseline(e.key) = {}
    /\ \A d \in delivered : d[4] \notin Baseline(<<d[1], d[2], d[3]>>)
    /\ pc \in {"loop", "flush_sent", "done"} =>
          \A key \in established :
             /\ PushesFor(key) = {}
             /\ Cur(key) # {}
             /\ Cur(key) = Baseline(key)

\* C31 witness: in the third run a slot of the baseline that the run before
\* did not list is current again for an evaluated alarm key, and another alarm
\* key, whose current set was empty in the run before, got its baseline.
BaselineSlotReappeared ==
    /\ cycle = 3
    /\ pc = "flush_sent"
    /\ prevRun.ran
    /\ \E key \in Diffed :
          \E sk \in Baseline(key) \cap Cur(key) :
             sk \notin key_to_current_slots(prevRun.availability, key)
    /\ \E key \in established :
          /\ key[1] \in prevRun.push_map
          /\ key_to_current_slots(prevRun.availability, key) = {}

\* C32 -- Sent-Log soundness (as claimed).  Every row of sent_slots and of
\* sent_rows carries a slot key of a push for its subscription id that the
\* transport accepted; a push that failed adds nothing to sent_rows; and when
\* a run is over, every slot key of every push the transport has accepted is
\* in sent_slots for the subscription id.
SentLogSound ==
    /\ \A r \in sent_slots \cup sent_rows :
          \E d \in delivered : d[1] = r[1] /\ d[4] = r[2]
    /\ \A r \in sent_rows :
          \E e \in pushLog : e.res = "ok" /\ e.key[1] = r[1] /\ r[2] \in Range(e.to_send)
    /\ pc = "done" => \A d \in delivered : <<d[1], d[4]>> \in sent_slots

\* C33 -- A subscription without a registered push endpoint is skipped with no
\* effect.  The step that evaluates an alarm key whose subscription id has no
\* row in push_subscriptions changes no table, attempts no push and adds
\* nothing to sent_rows, whatever the current slots, and goes on to the next
\* alarm key (unless the process stops there); a step that adds baseline
\* rows adds them for an alarm key with an endpoint and a current set that is
\* not empty, and had the run before met both for that key, the baseline
\* would not be new.
NoEndpointNoEffect ==
    [][/\ (pc = "loop" /\ i <= Len(alarm_keys)
            /\ alarm_keys[i][1] \notin push_subscriptions) =>
              /\ UNCHANGED <<db, pushLog, sent_rows, sent_map, baseline_map, established>>
              /\ i' = i + 1 \/ (i' = i /\ pc' = "done" /\ ending' = "crashed")
       /\ \A r \in baseline_slots' \ baseline_slots :
            LET key == <<r[1], r[2], r[3]>>
            IN  /\ r[1] \in push_subscriptions
                /\ Cur(key) # {}
                /\ Baseline(key) = {}
                /\ prevRun.ran =>
                      \/ key[1] \notin prevRun.push_map
                      \/ key_to_current_slots(prevRun.availability, key) = {}]_vars

\* C33 witness: an alarm key whose subscription id had no endpoint in the run
\* before, when its current set was not empty, and which got no baseline
\* then, has its baseline established in this run, the endpoint now existing.
EstablishedOnceRegistered ==
    /\ prevRun.ran
    /\ \E key \in established :
          /\ key[1] \notin prevRun.push_map
          /\ key[1] \in push_map
          /\ key_to_current_slots(prevRun.availability, key) # {}
          /\ Baseline(key) = Cur(key)

====
